---------------------------- MODULE Spec2Model ----------------------------
(***************************************************************************)
(* A model of the WhatsApp clinic assistant.                               *)
(*                                                                         *)
(*   - src/src/app: the LangGraph turn (memory -> categorize -> routing -> *)
(*     one formulator -> END), its node functions and the router.          *)
(*   - src/py_src/lambdas/agentLambda: the SQS-triggered handler and the   *)
(*     QueueDispatcher that publishes the deliver and persist messages.    *)
(*                                                                         *)
(* A turn starts as run(app, message, history) starts it; the interactive   *)
(* loop of app.py that feeds run is not part of the model.  The language   *)
(* model, master_agent and SQS are the environment: each call answers with *)
(* one of a small set of replies or raises.                                *)
(*                                                                         *)
(* Python strings are sequences of one-character strings, so that strip()  *)
(* and lower() are computed and not assumed.  None is the value None_.     *)
(***************************************************************************)
EXTENDS Integers, Sequences, FiniteSets, TLC

VARIABLES
    state,          \* the Turn State dict of the graph run (key -> value)
    active,         \* nodes scheduled for the next superstep of the graph
    executed,       \* node names in the order they ran
    route,          \* last value returned by route_from_category
    llm_calls,      \* prompts the language model has received, in order
    status,         \* "running" | "returned" | "raised" (app.invoke)
    batch,          \* SQS records of the event given to handler
    idx,            \* index of the record handler is working on
    pc,             \* position inside handler / invoke_handler
    assistant_message, \* reply of master_agent for the current record
    sqs_calls,      \* every sqs.send_message call, in order, and its outcome
    deliveries,     \* times the platform has given this event to handler
    result,         \* what handler gave the platform: "none" while running
    request,        \* a client function's call: its arguments and what the
                    \* environment, the configuration and the service hold
    outcome,        \* how that call ended: returned a value or raised
    http_sent,      \* HTTP requests and lambda invocations the call made
    served,         \* turns served after app.util was imported
    cached_key,     \* llms._cached_key
    threads,        \* each caller of get_openai_api_key: position and locals
    secret_string,  \* the SecretString the secret store holds
    sm_calls,       \* number of _sm.get_secret_value calls made
    key_writes      \* values assigned to _cached_key, in order

turnVars == <<state, active, executed, route, llm_calls, status>>
handlerVars ==
    <<batch, idx, pc, assistant_message, sqs_calls, deliveries, result>>
clientVars == <<request, outcome, http_sent, served>>
keyVars == <<cached_key, threads, secret_string, sm_calls, key_writes>>
otherVars == <<clientVars, keyVars>>
vars == <<state, active, executed, route, llm_calls, status,
          batch, idx, pc, assistant_message, sqs_calls, deliveries, result,
          request, outcome, http_sent, served,
          cached_key, threads, secret_string, sm_calls, key_writes>>

---------------------------------------------------------------------------
(* Bounds of the model *)

\* longest run of whitespace put around a category or a model reply
MaxPad == 1
\* longest history given to a turn
MaxHist == 15
\* most records in one SQS event
MaxBatch == 2
\* most times the platform gives the same event to handler
MaxDeliveries == 2

---------------------------------------------------------------------------
(* Python values *)

None_ == <<"None">>

Max(a, b) == IF a >= b THEN a ELSE b
Min(a, b) == IF a <= b THEN a ELSE b

UpperChars ==
    <<"A", "B", "C", "D", "E", "F", "G", "H", "I", "J", "K", "L", "M",
      "N", "O", "P", "Q", "R", "S", "T", "U", "V", "W", "X", "Y", "Z">>
LowerChars ==
    <<"a", "b", "c", "d", "e", "f", "g", "h", "i", "j", "k", "l", "m",
      "n", "o", "p", "q", "r", "s", "t", "u", "v", "w", "x", "y", "z">>

\* the characters str.strip() removes (the ASCII ones the model draws from)
Whitespace == {" ", "\t", "\n"}

\* str.lower() on one character
LowerChar(c) ==
    IF \E i \in 1..Len(UpperChars) : UpperChars[i] = c
    THEN LowerChars[CHOOSE i \in 1..Len(UpperChars) : UpperChars[i] = c]
    ELSE c

\* str.lower()
Lower(s) == [i \in 1..Len(s) |-> LowerChar(s[i])]

\* str.lstrip(), str.rstrip(), str.strip()
RECURSIVE LStrip(_)
LStrip(s) ==
    IF s # <<>> /\ Head(s) \in Whitespace THEN LStrip(Tail(s)) ELSE s

RECURSIVE RStrip(_)
RStrip(s) ==
    IF s # <<>> /\ s[Len(s)] \in Whitespace
    THEN RStrip(SubSeq(s, 1, Len(s) - 1))
    ELSE s

Strip(s) == RStrip(LStrip(s))

\* Python truthiness of a str-or-None value
Truthy(x) == x # None_ /\ x # <<>>

\* x or d
Or(x, d) == IF Truthy(x) THEN x ELSE d

\* dict.get(key, default)
Get(d, key, default) == IF key \in DOMAIN d THEN d[key] ELSE default

\* the dict d updated with the items of u (a node's partial update)
Merge(d, u) ==
    [k \in DOMAIN d \cup DOMAIN u |-> IF k \in DOMAIN u THEN u[k] ELSE d[k]]

---------------------------------------------------------------------------
(* The five intent labels and the text a classifier may answer with *)

L_ServiceFAQs == <<"S", "e", "r", "v", "i", "c", "e", "F", "A", "Q", "s">>
L_Logistics == <<"L", "o", "g", "i", "s", "t", "i", "c", "s">>
L_SmallTalk == <<"S", "m", "a", "l", "l", "T", "a", "l", "k">>
L_LowConfidence ==
    <<"L", "o", "w", "C", "o", "n", "f", "i", "d", "e", "n", "c", "e">>
L_Schedule == <<"S", "c", "h", "e", "d", "u", "l", "e">>

IntentLabels ==
    {L_ServiceFAQs, L_Logistics, L_SmallTalk, L_LowConfidence, L_Schedule}

K_servicefaqs == <<"s", "e", "r", "v", "i", "c", "e", "f", "a", "q", "s">>
K_logistics == <<"l", "o", "g", "i", "s", "t", "i", "c", "s">>
K_smalltalk == <<"s", "m", "a", "l", "l", "t", "a", "l", "k">>
K_lowconfidence ==
    <<"l", "o", "w", "c", "o", "n", "f", "i", "d", "e", "n", "c", "e">>
K_schedule == <<"s", "c", "h", "e", "d", "u", "l", "e">>

W_upperSchedule == <<"S", "C", "H", "E", "D", "U", "L", "E">>
W_mixedFaqs == <<"s", "E", "r", "V", "i", "C", "e", "F", "a", "Q", "s">>
W_upperSmallTalk == <<"S", "M", "A", "L", "L", "T", "A", "L", "K">>
W_plural == <<"S", "c", "h", "e", "d", "u", "l", "e", "s">>
W_prefix == <<"S", "c", "h", "e", "d", "u", "l">>
W_innerSpace == <<"S", "m", "a", "l", "l", " ", "T", "a", "l", "k">>
W_dot == <<"L", "o", "g", "i", "s", "t", "i", "c", "s", ".">>
W_routeKey == <<"i", "n", "f", "o">>
W_low == <<"l", "o", "w">>
W_sentence ==
    <<"I", "t", " ", "i", "s", " ", "S", "c", "h", "e", "d", "u", "l", "e">>
W_quoted == <<"\"", "S", "c", "h", "e", "d", "u", "l", "e", "\"">>

\* label text in several casings, and text that is no label
LabelSpellings ==
    IntentLabels \cup
    {K_servicefaqs, K_logistics, K_smalltalk, K_lowconfidence, K_schedule,
     W_upperSchedule, W_mixedFaqs, W_upperSmallTalk}

MalformedTexts ==
    {<<>>, W_plural, W_prefix, W_innerSpace, W_dot, W_routeKey, W_low,
     W_sentence, W_quoted}

\* runs of whitespace of length 0..MaxPad
RECURSIVE PadsOfLen(_)
PadsOfLen(n) ==
    IF n = 0 THEN {<<>>}
    ELSE {<<c>> \o p : c \in Whitespace, p \in PadsOfLen(n - 1)}

Pads == UNION {PadsOfLen(n) : n \in 0..MaxPad}

Padded(words) == {l \o w \o r : l \in Pads, w \in words, r \in Pads}

\* what state["category"] may hold when the router is called on its own
CategoryInputs == Padded(LabelSpellings \cup MalformedTexts) \cup {None_}

---------------------------------------------------------------------------
(* src/src/app/util.py *)

\* route_from_category with its fallback returning the label unmapped
RouteOfNormalised_NoFallback(cat) ==
    IF cat \in {K_servicefaqs, K_logistics} THEN "info"
    ELSE IF cat = K_schedule THEN "schedule"
    ELSE IF cat = K_smalltalk THEN "smalltalk"
    ELSE IF cat = K_lowconfidence THEN "low"
    ELSE "unknown"

\* the comparison chain of route_from_category on the normalised label
RouteOfNormalised(cat) ==
    IF cat \in {K_servicefaqs, K_logistics} THEN "info"
    ELSE IF cat = K_schedule THEN "schedule"
    ELSE IF cat = K_smalltalk THEN "smalltalk"
    ELSE IF cat = K_lowconfidence THEN "low"
    ELSE "low"

\* the normalisation without .lower()
NormalisedCategory_NoLower(st) ==
    Strip(Or(Get(st, "category", None_), <<>>))

\* cat = (state.get("category") or "").strip().lower()
NormalisedCategory(st) == Lower(Strip(Or(Get(st, "category", None_), <<>>)))

route_from_category(st) == RouteOfNormalised(NormalisedCategory(st))

\* routing_node returns the empty update
routing_node(st) == <<>>

\* the clinic facts of clinic_context.json the model runs with (no phone,
\* no website), and the keys and roles of a history entry
NAME == <<"O", "p", "a", "l">>
ADDRESS == <<"M", "a", "i", "n", " ", "1">>
HOURS == <<"9", "-", "5">>
KEY_ROLE == <<"r", "o", "l", "e">>
KEY_MESSAGE == <<"m", "e", "s", "s", "a", "g", "e">>
R_human == <<"h", "u", "m", "a", "n">>
R_agent == <<"a", "g", "e", "n", "t">>

\* CLINIC_CONTEXT, the dict load_clinic_context returned at import
CLINIC_CONTEXT ==
    [name |-> NAME, address |-> ADDRESS, hours |-> HOURS]

---------------------------------------------------------------------------
(* src/src/app/prompts.py *)

\* messages[-RecentCap:] is what memory keeps
RecentCap == 10

\* s[:n] in place of s[-n:]
LastN_FirstN(s, n) == SubSeq(s, 1, Min(n, Len(s)))

\* s[-n:] of a Python list
LastN(s, n) == SubSeq(s, Max(Len(s) - n, 0) + 1, Len(s))

DigitChars == <<"0", "1", "2", "3", "4", "5", "6", "7", "8", "9">>

RECURSIVE Decimal(_)
Decimal(i) ==
    IF i < 10 THEN <<DigitChars[i + 1]>>
    ELSE Decimal(i \div 10) \o <<DigitChars[(i % 10) + 1]>>

\* json.dumps of a str: quoted, with the quote, backslash and control
\* characters escaped
JsonEscapeChar(c) ==
    IF c = "\"" THEN <<"\\", "\"">>
    ELSE IF c = "\\" THEN <<"\\", "\\">>
    ELSE IF c = "\n" THEN <<"\\", "n">>
    ELSE IF c = "\t" THEN <<"\\", "t">>
    ELSE <<c>>

RECURSIVE JsonEscape(_)
JsonEscape(s) ==
    IF s = <<>> THEN <<>> ELSE JsonEscapeChar(Head(s)) \o JsonEscape(Tail(s))

JsonString(s) == <<"\"">> \o JsonEscape(s) \o <<"\"">>

\* json.dumps(item, ensure_ascii=False) of a history entry
JsonDumps(item) ==
    <<"{">> \o JsonString(KEY_ROLE) \o <<":", " ">> \o JsonString(item.role)
    \o <<",", " ">> \o JsonString(KEY_MESSAGE) \o <<":", " ">>
    \o JsonString(item.message) \o <<"}">>

\* "\n".join(lines)
RECURSIVE JoinLines(_)
JoinLines(lines) ==
    IF lines = <<>> THEN <<>>
    ELSE IF Len(lines) = 1 THEN Head(lines)
    ELSE Head(lines) \o <<"\n">> \o JoinLines(Tail(lines))

\* recent = (state.get("history", []) or [])[-10:]
recent(st) == LastN(Get(st, "history", <<>>), RecentCap)

history_blob(st) ==
    JoinLines([i \in 1..Len(recent(st)) |-> JsonDumps(recent(st)[i])])

\* what each node hands to the model: the template and its variables
MemoryPrompt(st) == [template |-> "memory", messages |-> history_blob(st)]

CategorizePrompt(st) ==
    [template |-> "categorize",
     message |-> Get(st, "message", <<>>),
     memory |-> Get(st, "memory", <<>>)]

FormulatePrompt(st, template) ==
    [template |-> template,
     message |-> Get(st, "message", <<>>),
     memory |-> Get(st, "memory", <<>>)]

ClinicPrompt(st, template, facts) ==
    [template |-> template,
     message |-> Get(st, "message", <<>>),
     memory |-> Get(st, "memory", <<>>),
     clinic |-> [k \in facts |-> Get(CLINIC_CONTEXT, k, <<>>)]]

\* the update each node returns, given the model's reply (.content)

\* memory returning "" without reading the reply when nothing is recent
memory_SkipsEmpty(st, response) ==
    "memory" :> (IF recent(st) = <<>> THEN <<>> ELSE Strip(response))

memory(st, response) == "memory" :> Strip(response)

\* categorize without .strip()
categorize_NoStrip(st, response) == "category" :> response

categorize(st, response) == "category" :> Strip(response)

formulate_final_answer_schedule(st, response) == "final_answer" :> response

formulate_final_answer_info(st, response) == "final_answer" :> response

formulate_final_answer_smalltalk(st, response) == "final_answer" :> response

formulate_final_answer_low_confidence(st, response) ==
    "final_answer" :> response

---------------------------------------------------------------------------
(* src/src/app/app.py: the graph *)

END == "__end__"

Formulators ==
    {"formulate_final_answer_schedule", "formulate_final_answer_info",
     "formulate_final_answer_smalltalk",
     "formulate_final_answer_low_confidence"}

\* workflow.add_node
Nodes == {"categorize", "memory", "routing"} \cup Formulators

\* workflow.set_entry_point
EntryPoint == "memory"

\* the edges with one more, from categorize back to memory
Edges_BackEdge ==
    {<<"memory", "categorize">>,
     <<"categorize", "routing">>,
     <<"categorize", "memory">>,
     <<"formulate_final_answer_schedule", END>>,
     <<"formulate_final_answer_info", END>>,
     <<"formulate_final_answer_smalltalk", END>>,
     <<"formulate_final_answer_low_confidence", END>>}

\* workflow.add_edge
Edges ==
    {<<"memory", "categorize">>,
     <<"categorize", "routing">>,
     <<"formulate_final_answer_schedule", END>>,
     <<"formulate_final_answer_info", END>>,
     <<"formulate_final_answer_smalltalk", END>>,
     <<"formulate_final_answer_low_confidence", END>>}

\* the path map with the schedule and info targets exchanged
PathMap_Swapped ==
    ("schedule" :> "formulate_final_answer_info")
    @@ ("info" :> "formulate_final_answer_schedule")
    @@ ("smalltalk" :> "formulate_final_answer_smalltalk")
    @@ ("low" :> "formulate_final_answer_low_confidence")

\* the path map of workflow.add_conditional_edges("routing", ...)
PathMap ==
    ("schedule" :> "formulate_final_answer_schedule")
    @@ ("info" :> "formulate_final_answer_info")
    @@ ("smalltalk" :> "formulate_final_answer_smalltalk")
    @@ ("low" :> "formulate_final_answer_low_confidence")

ConditionalSource == "routing"

\* nodes a finished node triggers: its plain edges, and for the source of
\* the conditional edge the branch its path function selects
Successors(node, st) ==
    {e[2] : e \in {d \in Edges : d[1] = node}}
    \cup (IF node = ConditionalSource
             /\ route_from_category(st) \in DOMAIN PathMap
          THEN {PathMap[route_from_category(st)]}
          ELSE {})

---------------------------------------------------------------------------
(* Inputs of a turn: what run(app, message, history) is given, and what   *)
(* the language model may answer                                           *)

T_hi == <<"H", "i", "!">>
T_summary == <<"s", "u", "m", ".">>
T_answer == <<"O", "k", "?">>

\* the text of history entry i: plain, or holding a line break and a quote
EntryText(i, style) ==
    IF style = "plain" THEN <<"m">> \o Decimal(i)
    ELSE <<"m">> \o Decimal(i) \o <<"\n", "\"">>

EntryRole(i, first) ==
    IF (i % 2 = 1) = (first = "human") THEN R_human ELSE R_agent

HistoryOf(n, first, style) ==
    [i \in 1..n |-> [role |-> EntryRole(i, first),
                     message |-> EntryText(i, style)]]

Histories ==
    {HistoryOf(n, first, style) :
        n \in 0..MaxHist, first \in {"human", "agent"},
        style \in {"plain", "escaped"}}

Messages == {T_hi, <<>>}

\* the dict app.invoke starts from: run passes message and history; a
\* direct caller may leave history out
TurnInputs ==
    {[message |-> m, history |-> h] : m \in Messages, h \in Histories}
    \cup {[message |-> m] : m \in Messages}

MemoryReplies == {<<>>, <<" ">>, T_summary, <<" ">> \o T_summary \o <<"\n">>}

ClassifierReplies ==
    {w \o r : w \in LabelSpellings \cup MalformedTexts,
              r \in {<<>>, <<"\n">>}}
    \cup {<<" ">> \o L_SmallTalk, <<"\n">>}

AnswerReplies == {<<>>, <<" ">>, T_answer, T_answer \o <<"\n">>}

---------------------------------------------------------------------------
(* One turn: app.invoke drives the compiled graph *)

\* a node returned `update`: the executor merges it into the state and
\* schedules the node's successors; the run returns when nothing is left
NodeReturns(node, update) ==
    /\ state' = Merge(state, update)
    /\ executed' = Append(executed, node)
    /\ active' = ((active \ {node}) \cup Successors(node, state')) \ {END}
    /\ status' = IF active' = {} THEN "returned" ELSE "running"

\* the model call of a node raised: app.invoke raises to its caller
NodeRaises(node) ==
    /\ status' = "raised"
    /\ active' = {}
    /\ UNCHANGED <<state, executed>>

\* the model was called with `prompt` and answered `reply` (.content), or
\* the call raised
LlmRaised == None_

LlmCall(prompt, reply) ==
    llm_calls' = Append(llm_calls, [prompt |-> prompt, reply |-> reply])

\* the clinic facts the info template reads
InfoFacts == {"name", "address", "hours", "phone", "website"}

MemoryNode ==
    /\ status = "running"
    /\ "memory" \in active
    /\ \/ \E response \in MemoryReplies :
            /\ LlmCall(MemoryPrompt(state), response)
            /\ NodeReturns("memory",
                    memory(state, response))
       \/ /\ LlmCall(MemoryPrompt(state), LlmRaised)
          /\ NodeRaises("memory")
    /\ UNCHANGED route
    /\ UNCHANGED handlerVars
    /\ UNCHANGED otherVars

CategorizeNode ==
    /\ status = "running"
    /\ "categorize" \in active
    /\ \/ \E response \in ClassifierReplies :
            /\ LlmCall(CategorizePrompt(state), response)
            /\ NodeReturns("categorize",
                    categorize(state, response))
       \/ /\ LlmCall(CategorizePrompt(state), LlmRaised)
          /\ NodeRaises("categorize")
    /\ UNCHANGED route
    /\ UNCHANGED handlerVars
    /\ UNCHANGED otherVars

\* routing_node, then the conditional edge calls route_from_category; a
\* result that is no key of the path map is an error of the graph
RoutingNode ==
    /\ status = "running"
    /\ "routing" \in active
    /\ route' = route_from_category(Merge(state, routing_node(state)))
    /\ IF route' \in DOMAIN PathMap
       THEN NodeReturns("routing", routing_node(state))
       ELSE NodeRaises("routing")
    /\ UNCHANGED llm_calls
    /\ UNCHANGED handlerVars
    /\ UNCHANGED otherVars

FormulateScheduleNode ==
    /\ status = "running"
    /\ "formulate_final_answer_schedule" \in active
    /\ \/ \E response \in AnswerReplies :
            /\ LlmCall(FormulatePrompt(state, "schedule"), response)
            /\ NodeReturns("formulate_final_answer_schedule",
                    formulate_final_answer_schedule(state, response))
       \/ /\ LlmCall(FormulatePrompt(state, "schedule"), LlmRaised)
          /\ NodeRaises("formulate_final_answer_schedule")
    /\ UNCHANGED route
    /\ UNCHANGED handlerVars
    /\ UNCHANGED otherVars

FormulateInfoNode ==
    /\ status = "running"
    /\ "formulate_final_answer_info" \in active
    /\ \/ \E response \in AnswerReplies :
            /\ LlmCall(ClinicPrompt(state, "info", InfoFacts), response)
            /\ NodeReturns("formulate_final_answer_info",
                    formulate_final_answer_info(state, response))
       \/ /\ LlmCall(ClinicPrompt(state, "info", InfoFacts), LlmRaised)
          /\ NodeRaises("formulate_final_answer_info")
    /\ UNCHANGED route
    /\ UNCHANGED handlerVars
    /\ UNCHANGED otherVars

FormulateSmalltalkNode ==
    /\ status = "running"
    /\ "formulate_final_answer_smalltalk" \in active
    /\ \/ \E response \in AnswerReplies :
            /\ LlmCall(ClinicPrompt(state, "smalltalk", {"name"}), response)
            /\ NodeReturns("formulate_final_answer_smalltalk",
                    formulate_final_answer_smalltalk(state, response))
       \/ /\ LlmCall(ClinicPrompt(state, "smalltalk", {"name"}), LlmRaised)
          /\ NodeRaises("formulate_final_answer_smalltalk")
    /\ UNCHANGED route
    /\ UNCHANGED handlerVars
    /\ UNCHANGED otherVars

FormulateLowConfidenceNode ==
    /\ status = "running"
    /\ "formulate_final_answer_low_confidence" \in active
    /\ \/ \E response \in AnswerReplies :
            /\ LlmCall(FormulatePrompt(state, "low"), response)
            /\ NodeReturns("formulate_final_answer_low_confidence",
                    formulate_final_answer_low_confidence(state, response))
       \/ /\ LlmCall(FormulatePrompt(state, "low"), LlmRaised)
          /\ NodeRaises("formulate_final_answer_low_confidence")
    /\ UNCHANGED route
    /\ UNCHANGED handlerVars
    /\ UNCHANGED otherVars

\* no client function has been called, llms has not been imported
ClientsIdle ==
    /\ request = [op |-> "none"]
    /\ outcome = [kind |-> "none"]
    /\ http_sent = <<>>
    /\ served = 0
    /\ cached_key = None_
    /\ threads = <<>>
    /\ secret_string = <<>>
    /\ sm_calls = 0
    /\ key_writes = <<>>

HandlerIdle ==
    /\ batch = <<>>
    /\ idx = 0
    /\ pc = "idle"
    /\ assistant_message = None_
    /\ sqs_calls = <<>>
    /\ deliveries = 0
    /\ result = "none"

\* run(app, message, history): app.invoke({"message": ..., "history": ...})
Init ==
    /\ state \in TurnInputs
    /\ active = {EntryPoint}
    /\ executed = <<>>
    /\ route = "unset"
    /\ llm_calls = <<>>
    /\ status = "running"
    /\ HandlerIdle
    /\ ClientsIdle

Next ==
    \/ MemoryNode
    \/ CategorizeNode
    \/ RoutingNode
    \/ FormulateScheduleNode
    \/ FormulateInfoNode
    \/ FormulateSmalltalkNode
    \/ FormulateLowConfidenceNode

Spec == Init /\ [][Next]_vars

---------------------------------------------------------------------------
(* The router called on its own, on any category *)

RouterInit ==
    /\ state \in {[category |-> c] : c \in CategoryInputs}
                 \cup {[message |-> T_hi]}
    /\ active = {}
    /\ executed = <<>>
    /\ route = "unset"
    /\ llm_calls = <<>>
    /\ status = "idle"
    /\ HandlerIdle
    /\ ClientsIdle

RouteCall ==
    /\ status = "idle"
    /\ route' = route_from_category(state)
    /\ status' = "routed"
    /\ UNCHANGED <<state, active, executed, llm_calls>>
    /\ UNCHANGED handlerVars
    /\ UNCHANGED otherVars

RouterNext == RouteCall

SpecRouter == RouterInit /\ [][RouterNext]_vars

---------------------------------------------------------------------------
(* src/py_src/lambdas/agentLambda/clients/queue_client.py *)

\* the queue URLs QueueDispatcher.__init__ read from the environment
PERSIST_QUEUE_URL == "CHAT_PERSIS_MESSAGE_QUEUE"
DELIVER_QUEUE_URL == "CHAT_DELIVER_MESSAGE_QUEUE"

\* the payload with messageId added when message_id is truthy
WithMessageId(payload, message_id) ==
    IF Truthy(message_id)
    THEN Merge(payload, "messageId" :> message_id)
    ELSE payload

\* _send with the exception of sqs.send_message swallowed
_send_Swallowed(queue_url, payload, accepted) ==
    [call |-> [queue |-> queue_url, payload |-> payload,
               accepted |-> accepted],
     raises |-> "none"]

\* QueueDispatcher._send: one sqs.send_message call; `accepted` is whether
\* SQS took the message, and any exception becomes QueueDispatchError
_send(queue_url, payload, accepted) ==
    [call |-> [queue |-> queue_url, payload |-> payload,
               accepted |-> accepted],
     raises |-> IF accepted THEN "none" ELSE "QueueDispatchError"]

\* send_persist_message adding messageId whatever it is
send_persist_message_AlwaysId(tenant_id, user_id, message_body, message_id, accepted) ==
    _send(PERSIST_QUEUE_URL,
          [tenantId |-> tenant_id, userId |-> user_id, role |-> "AGENT",
           messageBody |-> message_body, source |-> "chat-service",
           messageId |-> message_id],
          accepted)

send_persist_message(tenant_id, user_id, message_body, message_id, accepted) ==
    _send(PERSIST_QUEUE_URL,
          WithMessageId(
            [tenantId |-> tenant_id, userId |-> user_id, role |-> "AGENT",
             messageBody |-> message_body, source |-> "chat-service"],
            message_id),
          accepted)

send_delivery_message(tenant_id, user_id, phone_number_id, message_body, message_id, accepted) ==
    _send(DELIVER_QUEUE_URL,
          WithMessageId(
            [tenantId |-> tenant_id, userId |-> user_id,
             phoneNumberId |-> phone_number_id,
             messageBody |-> message_body, source |-> "chat-service",
             metadata |-> [producer |-> "agent-lambda"]],
            message_id),
          accepted)

---------------------------------------------------------------------------
(* src/py_src/lambdas/agentLambda/main.py *)

ID_w2 == <<"w", "2">>

\* record bodies as json.loads gives them; NotJson is a body that does not
\* parse
NotJson == [notjson |-> TRUE]

WellFormedBody(u) ==
    [tenantId |-> "t1", userId |-> u, combinedText |-> "hi",
     whatsappMeta |-> [phoneNumberId |-> "p1"]]

\* well-formed bodies with messageId missing (.get gives None, as it does
\* for a JSON null), empty or set
BodiesWithIds ==
    {WellFormedBody("u1"),
     Merge(WellFormedBody("u1"), "messageId" :> <<>>),
     Merge(WellFormedBody("u2"), "messageId" :> ID_w2)}

\* and bodies that do not parse or lack a key handler reads
RecordBodies ==
    BodiesWithIds
    \cup {NotJson,
          [tenantId |-> "t1", userId |-> "u1", combinedText |-> "hi",
           whatsappMeta |-> [wabaId |-> "x"], messageId |-> ID_w2]}

RECURSIVE SeqsOfLen(_, _)
SeqsOfLen(S, n) ==
    IF n = 0 THEN {<<>>}
    ELSE {<<x>> \o t : x \in S, t \in SeqsOfLen(S, n - 1)}

\* event.records: one to MaxBatch records
Batches == UNION {SeqsOfLen(RecordBodies, n) : n \in 1..MaxBatch}

\* response["messages"][-1].content of master_agent.invoke
AgentReplies == {T_answer, <<>>}

\* the keys handler reads with [] from a record body
RequiredKeys == {"tenantId", "userId", "combinedText", "whatsappMeta"}

\* what lines 28-34 of handler raise on a body, "none" when they pass
ParseError(body) ==
    IF body = NotJson THEN "JSONDecodeError"
    ELSE IF ~(RequiredKeys \subseteq DOMAIN body) THEN "KeyError"
    ELSE IF "phoneNumberId" \notin DOMAIN body["whatsappMeta"]
         THEN "KeyError"
    ELSE "none"

\* original_message_id = sqs_message.get("messageId")
original_message_id(body) == Get(body, "messageId", None_)

Running == pc # "idle" /\ result = "none"

\* handler raised `error`: the exception leaves handler where it is
Raise(error) ==
    /\ result' = error
    /\ UNCHANGED <<batch, idx, pc, deliveries>>

\* the for loop takes the next record and parses its body
HandlerNextRecord ==
    /\ Running
    /\ pc = "loop"
    /\ idx <= Len(batch)
    /\ IF ParseError(batch[idx]) = "none"
       THEN /\ pc' = "invoke"
            /\ UNCHANGED <<batch, idx, deliveries, result>>
       ELSE Raise(ParseError(batch[idx]))
    /\ UNCHANGED <<assistant_message, sqs_calls>>
    /\ UNCHANGED turnVars
    /\ UNCHANGED otherVars

\* the for loop is over: return {"statusCode": 200, ...}
HandlerReturn ==
    /\ Running
    /\ pc = "loop"
    /\ idx > Len(batch)
    /\ result' = "200"
    /\ UNCHANGED <<batch, idx, pc, assistant_message, sqs_calls, deliveries>>
    /\ UNCHANGED turnVars
    /\ UNCHANGED otherVars

\* invoke_handler: master_agent.invoke answers or raises
InvokeAgent ==
    /\ Running
    /\ pc = "invoke"
    /\ \/ \E reply \in AgentReplies :
            /\ assistant_message' = reply
            /\ pc' = "deliver"
            /\ UNCHANGED <<batch, idx, deliveries, result>>
       \/ /\ Raise("AgentError")
          /\ UNCHANGED assistant_message
    /\ UNCHANGED sqs_calls
    /\ UNCHANGED turnVars
    /\ UNCHANGED otherVars

\* a send_message call made during the current delivery of the event
Logged(call) ==
    Append(sqs_calls, [queue |-> call.queue, payload |-> call.payload,
                       accepted |-> call.accepted,
                       delivery |-> deliveries])

\* invoke_handler: dispatcher.send_delivery_message(...)
SendDelivery ==
    /\ Running
    /\ pc = "deliver"
    /\ \E accepted \in BOOLEAN :
        LET body == batch[idx]
            sent == send_delivery_message(
                        body["tenantId"], body["userId"],
                        body["whatsappMeta"]["phoneNumberId"],
                        assistant_message, original_message_id(body),
                        accepted)
        IN  /\ sqs_calls' = Logged(sent.call)
            /\ IF sent.raises = "none"
               THEN /\ pc' = "persist"
                    /\ UNCHANGED <<batch, idx, deliveries, result>>
               ELSE Raise(sent.raises)
    /\ UNCHANGED assistant_message
    /\ UNCHANGED turnVars
    /\ UNCHANGED otherVars

\* invoke_handler: dispatcher.send_persist_message(...), then back to the
\* loop of handler
SendPersist ==
    /\ Running
    /\ pc = "persist"
    /\ \E accepted \in BOOLEAN :
        LET body == batch[idx]
            sent == send_persist_message(
                        body["tenantId"], body["userId"],
                        assistant_message, original_message_id(body),
                        accepted)
        IN  /\ sqs_calls' = Logged(sent.call)
            /\ IF sent.raises = "none"
               THEN /\ pc' = "loop"
                    /\ idx' = idx + 1
                    /\ UNCHANGED <<batch, deliveries, result>>
               ELSE Raise(sent.raises)
    /\ UNCHANGED assistant_message
    /\ UNCHANGED turnVars
    /\ UNCHANGED otherVars

\* a mutant: the handler remembers how far it got and a redelivery resumes
\* at the publish that was refused
Redeliver_Resumes ==
    /\ pc # "idle"
    /\ result \notin {"none", "200"}
    /\ deliveries < MaxDeliveries
    /\ deliveries' = deliveries + 1
    /\ result' = "none"
    /\ UNCHANGED <<batch, idx, pc, assistant_message, sqs_calls>>
    /\ UNCHANGED turnVars
    /\ UNCHANGED otherVars

\* handler raised: the platform gives the same event to handler again
Redeliver ==
    /\ pc # "idle"
    /\ result \notin {"none", "200"}
    /\ deliveries < MaxDeliveries
    /\ deliveries' = deliveries + 1
    /\ idx' = 1
    /\ pc' = "loop"
    /\ result' = "none"
    /\ assistant_message' = None_
    /\ UNCHANGED <<batch, sqs_calls>>
    /\ UNCHANGED turnVars
    /\ UNCHANGED otherVars

TurnIdle ==
    /\ state = <<>>
    /\ active = {}
    /\ executed = <<>>
    /\ route = "unset"
    /\ llm_calls = <<>>
    /\ status = "idle"

\* the platform gives handler an event for the first time
HandlerInit ==
    /\ batch \in Batches
    /\ idx = 1
    /\ pc = "loop"
    /\ assistant_message = None_
    /\ sqs_calls = <<>>
    /\ deliveries = 1
    /\ result = "none"
    /\ TurnIdle
    /\ ClientsIdle

HandlerNext ==
    \/ HandlerNextRecord
    \/ HandlerReturn
    \/ InvokeAgent
    \/ SendDelivery
    \/ SendPersist
    \/ Redeliver

SpecHandler == HandlerInit /\ [][HandlerNext]_vars

---------------------------------------------------------------------------
(* Vocabulary of the properties *)

Ran(node) == \E i \in DOMAIN executed : executed[i] = node

FormulatorsRun == {i \in DOMAIN executed : executed[i] \in Formulators}

\* the calls the model received for one template
CallsOf(template) ==
    {i \in DOMAIN llm_calls : llm_calls[i].prompt.template = template}

\* the labels of the enumeration, case-folded
FoldedLabels == {Lower(l) : l \in IntentLabels}

\* a category as the router reads it: None and a missing key count as ""
CategoryText(st) ==
    IF "category" \in DOMAIN st /\ st["category"] # None_
    THEN st["category"] ELSE <<>>

\* text split at its line breaks
RECURSIVE SplitLines(_)
SplitLines(s) ==
    IF \E i \in DOMAIN s : s[i] = "\n"
    THEN LET i == CHOOSE j \in DOMAIN s :
                    s[j] = "\n" /\ \A k \in 1..(j - 1) : s[k] # "\n"
         IN <<SubSeq(s, 1, i - 1)>> \o SplitLines(SubSeq(s, i + 1, Len(s)))
    ELSE <<s>>

PromptLines(blob) == IF blob = <<>> THEN <<>> ELSE SplitLines(blob)

HistoryGiven == Get(state, "history", <<>>)

---------------------------------------------------------------------------
(* Properties of the router (SpecRouter) *)

\* C1: route_from_category maps the category, trimmed and case-folded:
\* ServiceFAQs or Logistics to "info", Schedule to "schedule", SmallTalk to
\* "smalltalk", LowConfidence to "low"; "ServiceFAQs", "servicefaqs" and
\* " ServiceFAQs " all give "info".
C1_RouterMapping ==
    status = "routed" =>
        LET c == Lower(Strip(CategoryText(state))) IN
        /\ c \in {Lower(L_ServiceFAQs), Lower(L_Logistics)} => route = "info"
        /\ c = Lower(L_Schedule) => route = "schedule"
        /\ c = Lower(L_SmallTalk) => route = "smalltalk"
        /\ c = Lower(L_LowConfidence) => route = "low"
        /\ CategoryText(state) \in
                {L_ServiceFAQs, K_servicefaqs,
                 <<" ">> \o L_ServiceFAQs \o <<" ">>} => route = "info"

C1_Witness ==
    /\ status = "routed"
    /\ CategoryText(state) = <<" ">> \o L_ServiceFAQs \o <<" ">>
    /\ route = "info"

\* C2: the router is total: a category that is none of the five labels
\* (trimmed, case-folded), the empty string, None or a missing category
\* gives "low", and every result is a key of the graph's path map.
C2_RouterTotal ==
    status = "routed" =>
        /\ route \in {"schedule", "info", "smalltalk", "low"}
        /\ route \in DOMAIN PathMap
        /\ Lower(Strip(CategoryText(state))) \notin FoldedLabels
                => route = "low"

C2_Witness ==
    /\ status = "routed"
    /\ Get(state, "category", <<>>) = None_
    /\ route = "low"

---------------------------------------------------------------------------
(* Properties of one turn (Spec) *)

\* C3: when a pass returns to its caller, final_answer was set exactly once
\* and is a non-empty string, whatever the model replied.
C3_FinalAnswerNonEmpty ==
    status = "returned" =>
        /\ Cardinality(FormulatorsRun) = 1
        /\ "final_answer" \in DOMAIN state
        /\ state["final_answer"] # <<>>

\* C4: the nodes run in the order memory, categorize, routing, one
\* formulator, END: none before its predecessor has written its output,
\* none twice, and never two scheduled at once.
C4_StrictOrder ==
    /\ Cardinality(active) <= 1
    /\ Len(executed) <= 4
    /\ Len(executed) >= 1 => executed[1] = "memory" /\ "memory" \in DOMAIN state
    /\ Len(executed) >= 2 =>
            executed[2] = "categorize" /\ "category" \in DOMAIN state
    /\ Len(executed) >= 3 => executed[3] = "routing" /\ route # "unset"
    /\ Len(executed) >= 4 => executed[4] \in Formulators
    /\ \A n \in active : ~Ran(n)
    /\ active = {} <=> status # "running"
    /\ status = "returned" => Len(executed) = 4

C4_Witness ==
    /\ status = "returned"
    /\ Len(executed) = 4
    /\ executed[4] = "formulate_final_answer_info"

\* C5: exactly one formulator runs in a turn, the one the router selected
\* (info, schedule, smalltalk, low); once it has set final_answer the turn
\* has ended and nothing is scheduled.
C5_OneFormulator ==
    /\ Cardinality(FormulatorsRun) <= 1
    /\ status = "returned" => Cardinality(FormulatorsRun) = 1
    /\ \A i \in FormulatorsRun :
        /\ i = Len(executed)
        /\ route = "info" => executed[i] = "formulate_final_answer_info"
        /\ route = "schedule" =>
                executed[i] = "formulate_final_answer_schedule"
        /\ route = "smalltalk" =>
                executed[i] = "formulate_final_answer_smalltalk"
        /\ route = "low" =>
                executed[i] = "formulate_final_answer_low_confidence"
        /\ route \in {"info", "schedule", "smalltalk", "low"}
    /\ "final_answer" \in DOMAIN state <=> FormulatorsRun # {}
    /\ "final_answer" \in DOMAIN state => active = {} /\ status = "returned"

C5_Witness ==
    /\ status = "returned"
    /\ route = "smalltalk"
    /\ executed[Len(executed)] = "formulate_final_answer_smalltalk"
    /\ "final_answer" \in DOMAIN state

\* C6 as claimed: the category in the Turn State is always one of the five
\* labels of the enumeration.
C6_CategoryInEnumeration ==
    "category" \in DOMAIN state => state["category"] \in IntentLabels

\* C6 as amended: the category the classifier writes is the model's reply
\* trimmed of surrounding whitespace, neither case-folded nor validated; a
\* value outside the enumeration is resolved only by the router, which
\* sends it to the low-confidence formulator, and no turn fails over it.
C6_CategoryIsTrimmedReply ==
    /\ Ran("categorize") =>
        /\ \A i \in CallsOf("categorize") :
                state["category"] = Strip(llm_calls[i].reply)
        /\ Ran("routing")
             /\ Lower(Strip(state["category"])) \notin FoldedLabels
           => /\ route = "low"
              /\ \/ active = {"formulate_final_answer_low_confidence"}
                 \/ llm_calls[Len(llm_calls)].prompt.template = "low"
    /\ status = "raised" => llm_calls[Len(llm_calls)].reply = LlmRaised

C6_Witness ==
    /\ status = "returned"
    /\ state["category"] = W_plural
    /\ Ran("formulate_final_answer_low_confidence")

\* C7: for a history of n entries the memory node gives the model exactly
\* the last min(n, 10) entries, in their order, one JSON line each, and no
\* earlier entry.
C7_LastTenInPrompt ==
    \A c \in CallsOf("memory") :
        LET h == HistoryGiven
            n == Len(h)
            k == Min(n, 10)
        IN  PromptLines(llm_calls[c].prompt.messages)
                = [i \in 1..k |-> JsonDumps(h[n - k + i])]

C7_Witness ==
    /\ Ran("memory")
    /\ Len(HistoryGiven) = 15
    /\ Len(PromptLines(llm_calls[1].prompt.messages)) = 10
    /\ PromptLines(llm_calls[1].prompt.messages)[1]
            = JsonDumps(HistoryGiven[6])

---------------------------------------------------------------------------
(* Properties of the handler (SpecHandler) *)

AcceptedNow(call) == call.delivery = deliveries /\ call.accepted
RefusedNow(call) == call.delivery = deliveries /\ ~call.accepted

\* the messages SQS accepted during the current delivery of the event
PublishedNow == SelectSeq(sqs_calls, AcceptedNow)

\* a record carries a messageId: the key is there and its value is truthy
HasMessageId(body) ==
    "messageId" \in DOMAIN body /\ body["messageId"] \notin {None_, <<>>}

\* the correlation id of a published payload is that of the record
SameCorrelation(payload, body) ==
    IF HasMessageId(body)
    THEN "messageId" \in DOMAIN payload
         /\ payload["messageId"] = body["messageId"]
    ELSE "messageId" \notin DOMAIN payload

\* C9: for each record whose turn succeeded the handler published exactly
\* two messages, the deliver message and then the persist message, with the
\* record's tenant and user, the same reply text (the agent's last message)
\* and the record's messageId, left out of both when the record has none;
\* the persist message has role AGENT, the deliver message the recipient id.
C9_DeliverThenPersist ==
    pc # "idle" =>
        LET pub == PublishedNow IN
        /\ Len(pub) = 2 * (idx - 1) + (IF pc = "persist" THEN 1 ELSE 0)
        /\ pc = "persist" =>
                /\ pub[Len(pub)].queue = DELIVER_QUEUE_URL
                /\ pub[Len(pub)].payload["messageBody"] = assistant_message
        /\ \A i \in 1..(idx - 1) :
            LET body == batch[i]
                d == pub[2 * i - 1]
                p == pub[2 * i]
            IN  /\ d.queue = DELIVER_QUEUE_URL
                /\ p.queue = PERSIST_QUEUE_URL
                /\ d.payload["tenantId"] = body["tenantId"]
                /\ p.payload["tenantId"] = body["tenantId"]
                /\ d.payload["userId"] = body["userId"]
                /\ p.payload["userId"] = body["userId"]
                /\ d.payload["phoneNumberId"]
                        = body["whatsappMeta"]["phoneNumberId"]
                /\ p.payload["role"] = "AGENT"
                /\ d.payload["messageBody"] = p.payload["messageBody"]
                /\ pc = "loop" /\ i = idx - 1 =>
                        p.payload["messageBody"] = assistant_message
                /\ SameCorrelation(d.payload, body)
                /\ SameCorrelation(p.payload, body)

C9_Witness ==
    /\ result = "200"
    /\ Len(batch) = 2
    /\ ~HasMessageId(batch[1])
    /\ HasMessageId(batch[2])
    /\ Len(PublishedNow) = 4
    /\ PublishedNow[3].payload["messageId"] = ID_w2
    /\ PublishedNow[4].payload["messageId"] = ID_w2

\* C10: no silent partial success: handler returns statusCode 200 only
\* when for every record of the batch both publishes were accepted, and a
\* refused publish is never swallowed: handler raises QueueDispatchError to
\* the platform.
C10_NoSilentPartialSuccess ==
    pc # "idle" =>
        /\ result \in {"none", "200", "QueueDispatchError", "AgentError",
                       "KeyError", "JSONDecodeError"}
        /\ (\E c \in DOMAIN sqs_calls : RefusedNow(sqs_calls[c]))
                => result = "QueueDispatchError"
        /\ result = "200" =>
            /\ idx = Len(batch) + 1
            /\ Len(PublishedNow) = 2 * Len(batch)
            /\ \A i \in 1..Len(batch) :
                /\ PublishedNow[2 * i - 1].queue = DELIVER_QUEUE_URL
                /\ PublishedNow[2 * i].queue = PERSIST_QUEUE_URL
        /\ result \notin {"none", "200"} /\ pc \in {"deliver", "persist"}
                => /\ result = "QueueDispatchError"
                   /\ RefusedNow(sqs_calls[Len(sqs_calls)])

C10_Witness ==
    /\ result = "QueueDispatchError"
    /\ idx = 2
    /\ pc = "persist"
    /\ Len(PublishedNow) = 3
    /\ ~sqs_calls[Len(sqs_calls)].accepted


---------------------------------------------------------------------------
\* JSON values as json.loads gives them and json.dumps takes them: tagged
\* with their Python type; a dict is its items in order, keys as str

PyNone == [t |-> "None"]
PyBool(b) == [t |-> "bool", v |-> b]
PyInt(n) == [t |-> "int", v |-> n]
PyStr(s) == [t |-> "str", v |-> s]
PyList(elems) == [t |-> "list", v |-> elems]
PyDict(items) == [t |-> "dict", v |-> items]

\* d.get(key, default) on a dict value: the last item with that key
DictHas(d, key) == \E i \in 1..Len(d.v) : d.v[i][1] = key
DictGet(d, key, default) ==
    IF DictHas(d, key)
    THEN d.v[CHOOSE i \in 1..Len(d.v) :
                /\ d.v[i][1] = key
                /\ \A j \in (i + 1)..Len(d.v) : d.v[j][1] # key][2]
    ELSE default

\* json.dumps(value) with the default separators
RECURSIVE Dumps(_)
RECURSIVE DumpsItems(_)
RECURSIVE DumpsElems(_)
Dumps(value) ==
    IF value.t = "None" THEN <<"n", "u", "l", "l">>
    ELSE IF value.t = "bool"
        THEN (IF value.v THEN <<"t", "r", "u", "e">>
              ELSE <<"f", "a", "l", "s", "e">>)
    ELSE IF value.t = "int" THEN Decimal(value.v)
    ELSE IF value.t = "str" THEN JsonString(value.v)
    ELSE IF value.t = "list" THEN <<"[">> \o DumpsElems(value.v) \o <<"]">>
    ELSE <<"{">> \o DumpsItems(value.v) \o <<"}">>
DumpsItems(items) ==
    IF items = <<>> THEN <<>>
    ELSE JsonString(items[1][1]) \o <<":", " ">> \o Dumps(items[1][2])
         \o (IF Len(items) = 1 THEN <<>>
             ELSE <<",", " ">> \o DumpsItems(Tail(items)))
DumpsElems(elems) ==
    IF elems = <<>> THEN <<>>
    ELSE Dumps(elems[1])
         \o (IF Len(elems) = 1 THEN <<>>
             ELSE <<",", " ">> \o DumpsElems(Tail(elems)))

\* json.loads(text): a recursive-descent reading of the text; each step
\* gives the value read and the rest of the text, or fails
JsonWs == {" ", "\t", "\n"}
JFail == [ok |-> FALSE]
JOk(value, rest) == [ok |-> TRUE, val |-> value, rest |-> rest]
StartsWith(s, prefix) ==
    Len(s) >= Len(prefix) /\ SubSeq(s, 1, Len(prefix)) = prefix
Drop(s, n) == SubSeq(s, n + 1, Len(s))
IsDigit(c) == \E i \in 1..Len(DigitChars) : DigitChars[i] = c
DigitValue(c) == (CHOOSE i \in 1..Len(DigitChars) : DigitChars[i] = c) - 1

RECURSIVE SkipWs(_)
SkipWs(s) == IF s # <<>> /\ Head(s) \in JsonWs THEN SkipWs(Tail(s)) ELSE s

\* the characters of a string literal after its opening quote
RECURSIVE ParseChars(_, _)
ParseChars(s, acc) ==
    IF s = <<>> THEN JFail
    ELSE IF Head(s) = "\"" THEN JOk(acc, Tail(s))
    ELSE IF Head(s) = "\\" THEN
        IF Len(s) < 2 THEN JFail
        ELSE IF s[2] \in {"\"", "\\", "/"}
            THEN ParseChars(Drop(s, 2), Append(acc, s[2]))
        ELSE IF s[2] = "n" THEN ParseChars(Drop(s, 2), Append(acc, "\n"))
        ELSE IF s[2] = "t" THEN ParseChars(Drop(s, 2), Append(acc, "\t"))
        ELSE JFail
    ELSE IF Head(s) \in {"\n", "\t"} THEN JFail
    ELSE ParseChars(Tail(s), Append(acc, Head(s)))

RECURSIVE ParseDigits(_, _)
ParseDigits(s, n) ==
    IF s # <<>> /\ IsDigit(Head(s))
    THEN ParseDigits(Tail(s), 10 * n + DigitValue(Head(s)))
    ELSE JOk(PyInt(n), s)

RECURSIVE ParseValue(_)
RECURSIVE ParseMembers(_, _)
RECURSIVE ParseElements(_, _)
ParseValue(text) ==
    LET s == SkipWs(text) IN
    IF s = <<>> THEN JFail
    ELSE IF Head(s) = "{" THEN
        LET r == SkipWs(Tail(s)) IN
        IF r # <<>> /\ Head(r) = "}" THEN JOk(PyDict(<<>>), Tail(r))
        ELSE ParseMembers(r, <<>>)
    ELSE IF Head(s) = "[" THEN
        LET r == SkipWs(Tail(s)) IN
        IF r # <<>> /\ Head(r) = "]" THEN JOk(PyList(<<>>), Tail(r))
        ELSE ParseElements(r, <<>>)
    ELSE IF Head(s) = "\"" THEN
        LET r == ParseChars(Tail(s), <<>>) IN
        IF r.ok THEN JOk(PyStr(r.val), r.rest) ELSE JFail
    ELSE IF StartsWith(s, <<"n", "u", "l", "l">>) THEN JOk(PyNone, Drop(s, 4))
    ELSE IF StartsWith(s, <<"t", "r", "u", "e">>)
        THEN JOk(PyBool(TRUE), Drop(s, 4))
    ELSE IF StartsWith(s, <<"f", "a", "l", "s", "e">>)
        THEN JOk(PyBool(FALSE), Drop(s, 5))
    ELSE IF Head(s) = "0" THEN JOk(PyInt(0), Tail(s))
    ELSE IF IsDigit(Head(s)) THEN ParseDigits(s, 0)
    ELSE JFail
ParseMembers(s, acc) ==
    IF s = <<>> \/ Head(s) # "\"" THEN JFail
    ELSE
        LET k == ParseChars(Tail(s), <<>>) IN
        IF ~k.ok THEN JFail
        ELSE
            LET c == SkipWs(k.rest) IN
            IF c = <<>> \/ Head(c) # ":" THEN JFail
            ELSE
                LET value == ParseValue(Tail(c)) IN
                IF ~value.ok THEN JFail
                ELSE
                    LET items == Append(acc, <<k.val, value.val>>)
                        d == SkipWs(value.rest)
                    IN  IF d = <<>> THEN JFail
                        ELSE IF Head(d) = "}"
                            THEN JOk(PyDict(items), Tail(d))
                        ELSE IF Head(d) = ","
                            THEN ParseMembers(SkipWs(Tail(d)), items)
                        ELSE JFail
ParseElements(s, acc) ==
    LET value == ParseValue(s) IN
    IF ~value.ok THEN JFail
    ELSE
        LET elems == Append(acc, value.val)
            d == SkipWs(value.rest)
        IN  IF d = <<>> THEN JFail
            ELSE IF Head(d) = "]" THEN JOk(PyList(elems), Tail(d))
            ELSE IF Head(d) = "," THEN ParseElements(Tail(d), elems)
            ELSE JFail

\* how a call ends
Returned(value) == [kind |-> "return", value |-> value]
Raised(error) == [kind |-> "raise", error |-> error]

json_loads(text) ==
    LET r == ParseValue(text) IN
    IF r.ok /\ SkipWs(r.rest) = <<>> THEN Returned(r.val)
    ELSE Raised("JSONDecodeError")

---------------------------------------------------------------------------
\* clients/api_clients.py: the clinic service, through the clinic lambda's
\* API-Gateway envelope or by direct HTTP

KEY_BODY == <<"b", "o", "d", "y">>
KEY_STATUS_CODE == <<"s", "t", "a", "t", "u", "s", "C", "o", "d", "e">>
KEY_ERROR == <<"e", "r", "r", "o", "r">>
KEY_ITEMS == <<"i", "t", "e", "m", "s">>
T_html == <<"<", "h", "t", "m", "l", ">">>
T_oops == <<"o", "o", "p", "s">>

\* what the service may answer: JSON objects (with and without a "body"
\* member), JSON that is not an object, and text that is not JSON
V_items == PyDict(<< <<KEY_ITEMS, PyList(<<>>)>> >>)
V_error == PyDict(<< <<KEY_ERROR, PyStr(T_oops)>> >>)
V_wrapped == PyDict(<< <<KEY_BODY, V_items>> >>)
V_wrappedText == PyDict(<< <<KEY_BODY, PyStr(T_oops)>> >>)
V_list == PyList(<<V_items>>)
ServiceValues == {V_items, V_error, V_wrapped, V_wrappedText, V_list,
                  PyStr(T_oops), PyNone}
ServiceTexts == {Dumps(value) : value \in ServiceValues} \cup {T_html, <<>>}
ServiceStatuses == {200, 204, 302, 404, 500}

\* an HTTP exchange: the request failed, or a response with status and text
HttpResponses ==
    {[failed |-> TRUE]}
    \cup [failed : {FALSE}, status : ServiceStatuses, text : ServiceTexts]

\* the Payload of lambda_client.invoke: the envelope the clinic lambda
\* gives, its body a JSON string; and envelopes whose body is a value, or
\* that lack body or statusCode; an empty payload; payloads that are not an
\* object or not JSON
Envelope(status_code, body) ==
    PyDict(<< <<KEY_STATUS_CODE, PyInt(status_code)>>, <<KEY_BODY, body>> >>)
LambdaPayloads ==
    {Dumps(Envelope(c, PyStr(text))) : c \in ServiceStatuses,
                                       text \in ServiceTexts}
    \cup {Dumps(Envelope(c, value)) : c \in {200, 500},
                                      value \in {V_items, V_list}}
    \cup {Dumps(PyDict(<< <<KEY_STATUS_CODE, PyInt(c)>> >>)) : c \in {200, 404}}
    \cup {Dumps(PyDict(<< <<KEY_BODY, PyStr(Dumps(V_items))>> >>)),
          Dumps(V_list), T_html, <<>>}

LambdaOps == {"fetch_clinic_context", "fetch_post_appointments_api"}
HttpOps == {"fetch_doctors_info", "fetch_get_appointments_by_doctor_id_api",
            "fetch_get_appointments_by_user_id_api",
            "fetch_patch_appointments_by_appointment_id",
            "fetch_delete_appointments_api"}

\* a call of a service operation: the operation, CLINIC_LAMBDA_NAME being
\* set or not, and what the service answers
ClinicRequests ==
    [op : LambdaOps, lambda_name_set : BOOLEAN, http : {[failed |-> TRUE]},
     payload : LambdaPayloads]
    \cup [op : HttpOps, lambda_name_set : {TRUE}, http : HttpResponses,
          payload : {<<>>}]

\* value[key] of a JSON value
Subscript(value, key) ==
    IF value.t = "dict"
    THEN (IF DictHas(value, key) THEN Returned(DictGet(value, key, PyNone))
          ELSE Raised("KeyError"))
    ELSE Raised("TypeError")

\* _invoke_clinic_lambda after lambda_client.invoke gave raw_payload
EnvelopeResult(raw_payload) ==
    LET loaded == json_loads(IF raw_payload = <<>> THEN <<"{", "}">>
                             ELSE raw_payload)
    IN  IF loaded.kind = "raise" THEN loaded
        ELSE IF loaded.value.t # "dict" THEN Raised("AttributeError")
        ELSE
            LET lambda_result == loaded.value
                status_code == DictGet(lambda_result, KEY_STATUS_CODE,
                                       PyInt(500))
                response_body == DictGet(lambda_result, KEY_BODY, PyNone)
                parsed == IF response_body.t = "str"
                          THEN json_loads(response_body.v)
                          ELSE IF response_body.t = "None"
                          THEN Returned(PyDict(<<>>))
                          ELSE Returned(response_body)
            IN  IF parsed.kind = "raise" THEN Raised("RuntimeError")
                ELSE IF status_code.t # "int" THEN Raised("TypeError")
                ELSE IF status_code.v >= 400 THEN Raised("RuntimeError")
                ELSE IF parsed.value.t # "dict" THEN Raised("RuntimeError")
                ELSE parsed

_invoke_clinic_lambda(req) ==
    IF ~req.lambda_name_set THEN Raised("RuntimeError")
    ELSE EnvelopeResult(req.payload)

\* requests.<method>(url).json()
ResponseJson(http) ==
    IF http.failed THEN Raised("ConnectionError")
    ELSE json_loads(http.text)

\* ... and the "body" member of it
ResponseJsonBody(http) ==
    LET res == ResponseJson(http) IN
    IF res.kind = "raise" THEN res ELSE Subscript(res.value, KEY_BODY)

Invocation(path, http_method) ==
    [via |-> "lambda", method |-> http_method, path |-> path]
HttpRequest(path, http_method) ==
    [via |-> "http", method |-> http_method, path |-> path]

\* a call through the lambda: invoked only when the function name is set
LambdaCall(op, path, http_method) ==
    /\ request.op = op
    /\ outcome.kind = "none"
    /\ outcome' = _invoke_clinic_lambda(request)
    /\ http_sent' = IF request.lambda_name_set
                    THEN Append(http_sent, Invocation(path, http_method))
                    ELSE http_sent
    /\ UNCHANGED <<request, served>>
    /\ UNCHANGED <<turnVars, handlerVars, keyVars>>

\* a direct HTTP call whose function ends as ending says
HttpCall(op, path, http_method, ending) ==
    /\ request.op = op
    /\ outcome.kind = "none"
    /\ outcome' = ending
    /\ http_sent' = Append(http_sent, HttpRequest(path, http_method))
    /\ UNCHANGED <<request, served>>
    /\ UNCHANGED <<turnVars, handlerVars, keyVars>>

fetch_clinic_context == LambdaCall("fetch_clinic_context", "/clinic", "GET")

fetch_doctors_info ==
    HttpCall("fetch_doctors_info", "/prod/clinic/doctors", "GET",
             ResponseJsonBody(request.http))

fetch_post_appointments_api ==
    LambdaCall("fetch_post_appointments_api", "/appointments", "POST")

fetch_get_appointments_by_doctor_id_api ==
    HttpCall("fetch_get_appointments_by_doctor_id_api",
             "/prod/appointments/availability", "GET",
             ResponseJson(request.http))

fetch_get_appointments_by_user_id_api ==
    HttpCall("fetch_get_appointments_by_user_id_api",
             "/prod/appointments/availability", "GET",
             ResponseJson(request.http))

fetch_patch_appointments_by_appointment_id ==
    HttpCall("fetch_patch_appointments_by_appointment_id",
             "/prod/appointments/{appointment_id}", "PATCH",
             ResponseJsonBody(request.http))

fetch_delete_appointments_api ==
    HttpCall("fetch_delete_appointments_api",
             "/prod/appointments/{appointment_id}", "DELETE",
             ResponseJson(request.http))

KeyIdle ==
    /\ cached_key = None_
    /\ threads = <<>>
    /\ secret_string = <<>>
    /\ sm_calls = 0
    /\ key_writes = <<>>

ClinicApiInit ==
    /\ request \in ClinicRequests
    /\ outcome = [kind |-> "none"]
    /\ http_sent = <<>>
    /\ served = 0
    /\ KeyIdle
    /\ TurnIdle
    /\ HandlerIdle

ClinicApiNext ==
    \/ fetch_clinic_context
    \/ fetch_doctors_info
    \/ fetch_post_appointments_api
    \/ fetch_get_appointments_by_doctor_id_api
    \/ fetch_get_appointments_by_user_id_api
    \/ fetch_patch_appointments_by_appointment_id
    \/ fetch_delete_appointments_api

SpecClinicApi == ClinicApiInit /\ [][ClinicApiNext]_vars

---------------------------------------------------------------------------
\* the status and the body text the service answered the call with: of the
\* HTTP response, or of the lambda's envelope (no statusCode reads as 500)

AnsweredEnvelope ==
    LET loaded == json_loads(request.payload) IN
    IF loaded.kind = "return" /\ loaded.value.t = "dict"
    THEN loaded.value ELSE PyDict(<<>>)

AnsweredStatus ==
    IF request.op \in HttpOps
    THEN (IF request.http.failed THEN 0 ELSE request.http.status)
    ELSE LET code == DictGet(AnsweredEnvelope, KEY_STATUS_CODE, PyInt(500))
         IN  IF code.t = "int" THEN code.v ELSE 0

AnsweredJson ==
    IF request.op \in HttpOps
    THEN (IF request.http.failed THEN Raised("ConnectionError")
          ELSE json_loads(request.http.text))
    ELSE LET body == DictGet(AnsweredEnvelope, KEY_BODY, PyNone)
         IN  IF body.t = "str" THEN json_loads(body.v)
             ELSE IF body.t = "None" THEN Raised("NoBody")
             ELSE Returned(body)

Is2xx(code) == code >= 200 /\ code <= 299

\* C11: every clinic service operation returns a JSON object to its caller
\* only when the response status is 2xx and the body is JSON; a non-2xx
\* status or a non-JSON body ends the call with a raised error, never with
\* a normal return.
C11_ReturnsOnly2xxJson ==
    /\ outcome.kind = "return" =>
            /\ Is2xx(AnsweredStatus)
            /\ AnsweredJson.kind = "return"
            /\ outcome.value.t = "dict"
    /\ outcome.kind # "none"
       /\ (~Is2xx(AnsweredStatus) \/ AnsweredJson.kind = "raise")
            => outcome.kind = "raise"


---------------------------------------------------------------------------
\* app/util.py: load_clinic_context, called when the module is imported

MaxServed == 2

KEY_NAME == <<"n", "a", "m", "e">>
KEY_ADDRESS == <<"a", "d", "d", "r", "e", "s", "s">>
KEY_HOURS == <<"h", "o", "u", "r", "s">>

\* what a source may hold: the full Facts, some of them, none, JSON that is
\* not an object; and text that is not JSON (cut short, or not JSON at all)
F_full ==
    PyDict(<< <<KEY_NAME, PyStr(CLINIC_CONTEXT.name)>>,
              <<KEY_ADDRESS, PyStr(CLINIC_CONTEXT.address)>>,
              <<KEY_HOURS, PyStr(CLINIC_CONTEXT.hours)>> >>)
F_partial == PyDict(<< <<KEY_NAME, PyStr(CLINIC_CONTEXT.name)>> >>)
ContextValues == {F_full, F_partial, PyDict(<<>>), PyList(<<>>)}
CutShort(text) == SubSeq(text, 1, Len(text) - 1)
ContextTexts ==
    {Dumps(value) : value \in ContextValues}
    \cup {CutShort(Dumps(F_full)), T_html}

\* os.getenv("CLINIC_CONTEXT_JSON"): None when unset, or the text, which may
\* be empty; clinic_context.json: None_ when there is no such file
ContextRequests ==
    [op : {"load_clinic_context"},
     env : {None_, <<>>} \cup ContextTexts,
     file : {None_, <<>>} \cup ContextTexts]

\* a mutant: a source that does not parse is passed over for the next one,
\* and for empty Facts when none is left
load_clinic_context_FallsBack(env_context, file) ==
    LET from_env == json_loads(env_context)
        from_file == json_loads(file)
    IN  IF Truthy(env_context) /\ from_env.kind = "return" THEN from_env
        ELSE IF file # None_ /\ from_file.kind = "return" THEN from_file
        ELSE Returned(PyDict(<<>>))
load_clinic_context(env_context, file) ==
    IF Truthy(env_context) THEN json_loads(env_context)
    ELSE IF file = None_ THEN Raised("FileNotFoundError")
    ELSE json_loads(file)

\* import app.util: CLINIC_CONTEXT = load_clinic_context(); when that
\* raises, the import fails
ImportUtil ==
    /\ request.op = "load_clinic_context"
    /\ outcome.kind = "none"
    /\ outcome' = load_clinic_context(request.env, request.file)
    /\ UNCHANGED <<request, http_sent, served>>
    /\ UNCHANGED <<turnVars, handlerVars, keyVars>>

\* run(app, message, history): a turn, served by the imported module
ServeTurn ==
    /\ request.op = "load_clinic_context"
    /\ outcome.kind = "return"
    /\ served < MaxServed
    /\ served' = served + 1
    /\ UNCHANGED <<request, outcome, http_sent>>
    /\ UNCHANGED <<turnVars, handlerVars, keyVars>>

ClinicContextInit ==
    /\ request \in ContextRequests
    /\ outcome = [kind |-> "none"]
    /\ http_sent = <<>>
    /\ served = 0
    /\ KeyIdle
    /\ TurnIdle
    /\ HandlerIdle

ClinicContextNext ==
    \/ ImportUtil
    \/ ServeTurn

SpecClinicContext == ClinicContextInit /\ [][ClinicContextNext]_vars

---------------------------------------------------------------------------
\* the source the claim says is chosen, and the JSON value a text is the
\* serialisation of, if any

ChosenSource == IF Truthy(request.env) THEN request.env ELSE request.file
Denotes(text) == \E value \in ContextValues : Dumps(value) = text
ValueOf(text) == CHOOSE value \in ContextValues : Dumps(value) = text

\* C12: load_clinic_context uses the inline CLINIC_CONTEXT_JSON whenever it
\* is present (set and not empty) and the local clinic_context.json
\* otherwise; when neither is available or the chosen source does not parse,
\* loading raises at import and no turn is served: it never falls back to
\* the other source or to empty or partial Facts.
C12_InlineFirstElseFileElseRaise ==
    request.op = "load_clinic_context" =>
        /\ outcome.kind # "none" /\ Denotes(ChosenSource)
                => outcome = Returned(ValueOf(ChosenSource))
        /\ outcome.kind # "none" /\ ~Denotes(ChosenSource)
                => outcome.kind = "raise"
        /\ served > 0 => outcome.kind = "return"

\* the inline text is cut short while the file holds the full Facts: the
\* import has raised
C12_Witness ==
    /\ request.op = "load_clinic_context"
    /\ request.env = CutShort(Dumps(F_full))
    /\ request.file = Dumps(F_full)
    /\ outcome = Raised("JSONDecodeError")
    /\ served = 0


---------------------------------------------------------------------------
\* clients/secret_manager_client.py and clients/meta_client.py

KEY_TOKEN ==
    <<"W", "H", "A", "T", "S", "A", "P", "P", "_", "A", "C", "C", "E", "S",
      "S", "_", "T", "O", "K", "E", "N">>
T_arn == <<"a", "r", "n", ":">>
T_token == <<"t", "o", "k">>
T_p1 == <<"p", "1">>
T_u1 == <<"u", "1">>

\* bool(value) of a JSON value
PyTruthy(value) ==
    IF value.t = "None" THEN FALSE
    ELSE IF value.t = "bool" THEN value.v
    ELSE IF value.t = "int" THEN value.v # 0
    ELSE value.v # <<>>

\* get_secret_json(secret_id); stored is the SecretString held under that
\* id, None_ when there is no such secret
get_secret_json(stored) ==
    IF stored = None_ THEN Raised("ClientError") ELSE json_loads(stored)

\* the secrets a phone number may have: with the token, without it, with an
\* empty one, not JSON, none
SecretStrings ==
    {Dumps(PyDict(<< <<KEY_TOKEN, PyStr(T_token)>> >>)),
     Dumps(PyDict(<< <<KEY_NAME, PyStr(T_token)>> >>)),
     Dumps(PyDict(<< <<KEY_TOKEN, PyStr(<<>>)>> >>)),
     T_html,
     None_}

\* what the Graph API may answer
GraphStatuses == {200, 201, 302, 400, 500}
GraphTexts == {Dumps(V_items), Dumps(V_error), T_html}
GraphResponses ==
    {[failed |-> TRUE]}
    \cup [failed : {FALSE}, status : GraphStatuses, text : GraphTexts]

\* a call of send_whatsapp_message: its arguments, WHATSAPP_SECRET_ARN
\* (None_ when unset), the phone number's secret, the Graph API's answer
WhatsappRequests ==
    [op : {"send_whatsapp_message"},
     assistant_message : {T_hi, <<" ">>, <<>>},
     phone_number_id : {T_p1, <<>>},
     user_id : {T_u1, <<" ">>},
     secret_arn : {None_, <<>>, T_arn},
     secret : SecretStrings,
     http : GraphResponses]

\* Response.ok
ResponseOk(http) == http.status < 400

\* the POST to /{phone_number_id}/messages
GraphPost(req, token) ==
    [via |-> "http", method |-> "POST",
     path |-> <<"/">> \o req.phone_number_id,
     bearer |-> token, to |-> req.user_id, body |-> req.assistant_message]

\* send_whatsapp_message: how the call ends, and the requests it sent
send_whatsapp_message(req) ==
    LET secret == get_secret_json(req.secret)
        token == DictGet(secret.value, KEY_TOKEN, PyNone)
        nothing(ending) == [outcome |-> ending, sent |-> <<>>]
    IN  IF Strip(req.assistant_message) = <<>> THEN nothing(Raised("ValueError"))
        ELSE IF Strip(req.phone_number_id) = <<>>
            THEN nothing(Raised("ValueError"))
        ELSE IF Strip(req.user_id) = <<>> THEN nothing(Raised("ValueError"))
        ELSE IF ~Truthy(req.secret_arn)
            THEN nothing(Raised("WhatsAppSendError"))
        ELSE IF secret.kind = "raise" THEN nothing(secret)
        ELSE IF secret.value.t # "dict" THEN nothing(Raised("AttributeError"))
        ELSE IF ~PyTruthy(token) THEN nothing(Raised("WhatsAppSendError"))
        ELSE [sent |-> <<GraphPost(req, token.v)>>,
              outcome |->
                IF req.http.failed THEN Raised("WhatsAppSendError")
                ELSE IF ~ResponseOk(req.http) THEN Raised("WhatsAppSendError")
                ELSE json_loads(req.http.text)]

SendWhatsappMessage ==
    /\ request.op = "send_whatsapp_message"
    /\ outcome.kind = "none"
    /\ outcome' = send_whatsapp_message(request).outcome
    /\ http_sent' = http_sent \o send_whatsapp_message(request).sent
    /\ UNCHANGED <<request, served>>
    /\ UNCHANGED <<turnVars, handlerVars, keyVars>>

WhatsappInit ==
    /\ request \in WhatsappRequests
    /\ outcome = [kind |-> "none"]
    /\ http_sent = <<>>
    /\ served = 0
    /\ KeyIdle
    /\ TurnIdle
    /\ HandlerIdle

WhatsappNext == SendWhatsappMessage

SpecWhatsapp == WhatsappInit /\ [][WhatsappNext]_vars

---------------------------------------------------------------------------
\* the failing cases the claim names

EmptyInput ==
    \/ Strip(request.assistant_message) = <<>>
    \/ Strip(request.phone_number_id) = <<>>
    \/ Strip(request.user_id) = <<>>

SecretLacksToken ==
    /\ request.secret # None_
    /\ \E value \in {PyDict(<< <<KEY_NAME, PyStr(T_token)>> >>),
                     PyDict(<< <<KEY_TOKEN, PyStr(<<>>)>> >>)} :
            Dumps(value) = request.secret

MissingConfig == ~Truthy(request.secret_arn) \/ SecretLacksToken

\* C13: send_whatsapp_message returns the response JSON only for a 2xx
\* response; on a non-2xx response, a failed HTTP request or missing
\* configuration (WHATSAPP_SECRET_ARN unset, the secret lacking
\* WHATSAPP_ACCESS_TOKEN) it raises WhatsAppSendError; and when it fails for
\* empty inputs or missing configuration no HTTP request is sent.
C13_Returns2xxOnly ==
    request.op = "send_whatsapp_message" /\ outcome.kind # "none" =>
        /\ outcome.kind = "return"
                => /\ Len(http_sent) = 1
                   /\ ~request.http.failed
                   /\ Is2xx(request.http.status)
        /\ Len(http_sent) = 1
           /\ (request.http.failed \/ ~Is2xx(request.http.status))
                => outcome = Raised("WhatsAppSendError")
        /\ ~EmptyInput /\ MissingConfig
                => outcome = Raised("WhatsAppSendError")
        /\ EmptyInput \/ MissingConfig
                => outcome.kind = "raise" /\ http_sent = <<>>


---------------------------------------------------------------------------
\* the send_message calls made during delivery d of the event, in order

CallsIn(d) ==
    LET During(call) == call.delivery = d IN SelectSeq(sqs_calls, During)

\* the queue of the k-th call of a delivery that starts at the first record
QueueOfCall(k) ==
    IF k % 2 = 1 THEN DELIVER_QUEUE_URL ELSE PERSIST_QUEUE_URL

\* C14: a refused publish is not retried locally and publishing is not
\* idempotent: a refused call is the last call of its delivery, and every
\* delivery of the event runs the records again from the first one,
\* publishing deliver and persist for each with the record's messageId
\* whatever earlier deliveries have published already. So when deliver was
\* accepted and persist refused, the redelivery publishes a second deliver
\* message with the same messageId, and a failure at a later record
\* publishes the earlier records' messages again.
C14_NoRetryNoIdempotency ==
    pc # "idle" =>
        /\ \A i \in 1..Len(sqs_calls) :
            ~sqs_calls[i].accepted
                => \/ i = Len(sqs_calls) /\ result # "200"
                   \/ /\ i < Len(sqs_calls)
                      /\ sqs_calls[i + 1].delivery > sqs_calls[i].delivery
        /\ \A d \in 1..deliveries :
            \A k \in 1..Len(CallsIn(d)) :
                /\ k <= 2 * Len(batch)
                /\ CallsIn(d)[k].queue = QueueOfCall(k)
                /\ SameCorrelation(CallsIn(d)[k].payload,
                                   batch[(k + 1) \div 2])
                /\ CallsIn(d)[k].payload["tenantId"]
                        = batch[(k + 1) \div 2]["tenantId"]
                /\ CallsIn(d)[k].payload["userId"]
                        = batch[(k + 1) \div 2]["userId"]

\* first delivery: the second record's deliver was accepted and its persist
\* refused; on redelivery both records run again, and the queue has taken
\* the second record's deliver message twice, with the same messageId
C14_Witness ==
    /\ deliveries = 2
    /\ Len(batch) = 2
    /\ Len(CallsIn(1)) = 4
    /\ ~CallsIn(1)[4].accepted
    /\ CallsIn(1)[3].accepted
    /\ Len(CallsIn(2)) >= 3
    /\ CallsIn(2)[1].accepted
    /\ CallsIn(2)[3].accepted
    /\ CallsIn(2)[3].queue = DELIVER_QUEUE_URL
    /\ CallsIn(1)[3].queue = DELIVER_QUEUE_URL
    /\ HasMessageId(batch[2])
    /\ CallsIn(1)[3].payload["messageId"] = batch[2]["messageId"]
    /\ CallsIn(2)[3].payload["messageId"] = batch[2]["messageId"]


---------------------------------------------------------------------------
\* foundational_llm/llms.py: get_openai_api_key and the module-level
\* _cached_key

MaxCallers == 2
MaxRotations == 1

KEY_OPENAI ==
    <<"O", "P", "E", "N", "A", "I", "_", "A", "P", "I", "_", "K", "E", "Y">>
KEY_API_KEY == <<"a", "p", "i", "_", "k", "e", "y">>
T_sk1 == <<"s", "k", "1">>
T_sk2 == <<"s", "k", "2">>

\* what the secret may hold: JSON with either member, with neither, with an
\* empty one; JSON that is not an object; the bare key, padded; blank text
KeySecrets ==
    {Dumps(PyDict(<< <<KEY_OPENAI, PyStr(T_sk1)>> >>)),
     Dumps(PyDict(<< <<KEY_OPENAI, PyStr(<<>>)>>,
                     <<KEY_API_KEY, PyStr(T_sk2)>> >>)),
     Dumps(PyDict(<< <<KEY_NAME, PyStr(T_sk1)>> >>)),
     Dumps(PyStr(T_sk1)),
     <<" ">> \o T_sk2 \o <<"\n">>,
     <<" ">>}

\* a or b on JSON values
PyOr(a, b) == IF PyTruthy(a) THEN a ELSE b

\* lines 20-27: the key read from secret_str (the secrets of the model hold
\* str keys), or the exception that leaves the function
KeyOfSecret(secret_str) ==
    LET data == json_loads(secret_str)
        key == PyOr(DictGet(data.value, KEY_OPENAI, PyNone),
                    DictGet(data.value, KEY_API_KEY, PyNone))
    IN  IF data.kind = "raise" THEN Returned(Strip(secret_str))
        ELSE IF data.value.t # "dict" THEN Raised("AttributeError")
        ELSE IF ~PyTruthy(key) THEN Raised("ValueError")
        ELSE Returned(key.v)

\* caller 0 is the call made when the module is imported (line 32); the
\* others are calls made afterwards, from turns running in parallel
Callers == 0..MaxCallers
ImportCall == 0

\* a caller: where it is, its local key, how many assignments to
\* _cached_key had been made when it began, whether it called the secret
\* store, what it returned
NotStarted ==
    [pc |-> "idle", key |-> None_, began |-> 0, fetched |-> FALSE,
     ret |-> None_]

\* the module is imported before anything can call the function; a call
\* that raised at import leaves no module to call
MayRun(t) == t = ImportCall \/ threads[ImportCall].pc = "done"

\* lines 14-15: if _cached_key: return _cached_key
KeyCheck(t) ==
    /\ MayRun(t)
    /\ threads[t].pc = "idle"
    /\ threads' = [threads EXCEPT ![t] =
            IF Truthy(cached_key)
            THEN [@ EXCEPT !.pc = "done", !.ret = cached_key,
                           !.began = Len(key_writes)]
            ELSE [@ EXCEPT !.pc = "fetch", !.began = Len(key_writes)]]
    /\ UNCHANGED <<cached_key, secret_string, sm_calls, key_writes>>

\* lines 17-27: _sm.get_secret_value answers or raises; then the key is
\* read from the SecretString
KeyFetch(t) ==
    /\ threads[t].pc = "fetch"
    /\ sm_calls' = sm_calls + 1
    /\ \/ LET key == KeyOfSecret(secret_string[Len(secret_string)]) IN
          threads' = [threads EXCEPT ![t] =
            IF key.kind = "return"
            THEN [@ EXCEPT !.pc = "assign", !.key = key.value,
                           !.fetched = TRUE]
            ELSE [@ EXCEPT !.pc = "raised", !.fetched = TRUE]]
       \/ threads' = [threads EXCEPT ![t] =
            [@ EXCEPT !.pc = "raised", !.fetched = TRUE]]
    /\ UNCHANGED <<cached_key, secret_string, key_writes>>

\* lines 29-30: _cached_key = key; return key
KeyAssign(t) ==
    /\ threads[t].pc = "assign"
    /\ cached_key' = threads[t].key
    /\ key_writes' = Append(key_writes, threads[t].key)
    /\ threads' = [threads EXCEPT ![t] =
            [@ EXCEPT !.pc = "done", !.ret = threads[t].key]]
    /\ UNCHANGED <<secret_string, sm_calls>>

GetKeyCheck ==
    /\ \E t \in Callers : KeyCheck(t)
    /\ UNCHANGED <<turnVars, handlerVars, clientVars>>

GetKeyFetch ==
    /\ \E t \in Callers : KeyFetch(t)
    /\ UNCHANGED <<turnVars, handlerVars, clientVars>>

GetKeyAssign ==
    /\ \E t \in Callers : KeyAssign(t)
    /\ UNCHANGED <<turnVars, handlerVars, clientVars>>

\* the secret is given a new value in the secret store
RotateSecret ==
    /\ Len(secret_string) <= MaxRotations
    /\ \E new \in KeySecrets \ {secret_string[Len(secret_string)]} :
            secret_string' = Append(secret_string, new)
    /\ UNCHANGED <<cached_key, threads, sm_calls, key_writes>>
    /\ UNCHANGED <<turnVars, handlerVars, clientVars>>

ApiKeyInit ==
    /\ cached_key = None_
    /\ threads = [t \in Callers |-> NotStarted]
    /\ secret_string \in {<<held>> : held \in KeySecrets}
    /\ sm_calls = 0
    /\ key_writes = <<>>
    /\ request = [op |-> "none"]
    /\ outcome = [kind |-> "none"]
    /\ http_sent = <<>>
    /\ served = 0
    /\ TurnIdle
    /\ HandlerIdle

ApiKeyNext ==
    \/ GetKeyCheck
    \/ GetKeyFetch
    \/ GetKeyAssign
    \/ RotateSecret

SpecApiKey == ApiKeyInit /\ [][ApiKeyNext]_vars

---------------------------------------------------------------------------
\* C15: _cached_key is write-once-read-many: under any interleaving of
\* get_openai_api_key calls it is assigned at most once, it never changes
\* after its first assignment, and every call that begins after a
\* successful fetch returns the cached key without calling the secret
\* store again.
C15_WriteOnceReadMany ==
    threads # <<>> =>
        /\ Len(key_writes) <= 1
        /\ key_writes # <<>> => cached_key = key_writes[1]
        /\ \A t \in Callers :
            threads[t].began >= 1
                => /\ ~threads[t].fetched
                   /\ threads[t].pc = "done"
                   /\ threads[t].ret = key_writes[1]
        /\ sm_calls <= 1

===========================================================================
